---------------------------- MODULE Spec2Model ----------------------------
(***************************************************************************)
(* A model of compare_json_app.py: the comparison engine find_differences  *)
(* (json.dumps with sorted keys and indent 2, difflib.unified_diff with    *)
(* zero context lines, the added/removed summary) and the part of main     *)
(* that parses the two inputs and decides whether to compare.              *)
(*                                                                         *)
(* A text is a sequence of one-character strings.  A JSON value is a       *)
(* record [t, v] tagged with the Python type json.loads produces for it:   *)
(*   NoneType (v = 0), bool, int, str (a text), list (a sequence of        *)
(*   values), dict (a sequence of <<key, value>> pairs in insertion order, *)
(*   the keys distinct texts).                                             *)
(***************************************************************************)
EXTENDS Integers, Sequences, FiniteSets, TLC

(***************************************************************************)
(* Bounds of the model.                                                    *)
(***************************************************************************)
\* longest array of the pairs of arrays (SpecArrays)
MaxArrayLen == 5
\* longest array whose single leaf is changed (SpecLeaf)
MaxLeafArrayLen == 8
\* longest array of the document universe (Spec)
MaxDocArrayLen == 3
\* most members of an object of the document universes (Spec, SpecKeyOrder)
MaxMembers == 2

(***************************************************************************)
(* Python values.                                                          *)
(***************************************************************************)
None == [t |-> "NoneType", v |-> 0]
PyBool(b) == [t |-> "bool", v |-> b]
PyInt(n) == [t |-> "int", v |-> n]
PyStr(s) == [t |-> "str", v |-> s]
PyList(xs) == [t |-> "list", v |-> xs]
PyDict(items) == [t |-> "dict", v |-> items]

\* the code point of a character of the model's alphabet (Python's ord)
Ord(c) ==
    CASE c = "\n" -> 10
      [] c = " " -> 32
      [] c = "\"" -> 34
      [] c = "+" -> 43
      [] c = "," -> 44
      [] c = "-" -> 45
      [] c = "0" -> 48
      [] c = "1" -> 49
      [] c = "2" -> 50
      [] c = "3" -> 51
      [] c = "4" -> 52
      [] c = "5" -> 53
      [] c = "6" -> 54
      [] c = "7" -> 55
      [] c = "8" -> 56
      [] c = "9" -> 57
      [] c = ":" -> 58
      [] c = "@" -> 64
      [] c = "Z" -> 90
      [] c = "[" -> 91
      [] c = "\\" -> 92
      [] c = "]" -> 93
      [] c = "a" -> 97
      [] c = "b" -> 98
      [] c = "e" -> 101
      [] c = "f" -> 102
      [] c = "k" -> 107
      [] c = "l" -> 108
      [] c = "n" -> 110
      [] c = "r" -> 114
      [] c = "s" -> 115
      [] c = "t" -> 116
      [] c = "u" -> 117
      [] c = "v" -> 118
      [] c = "x" -> 120
      [] c = "{" -> 123
      [] c = "}" -> 125

RECURSIVE StrLess(_, _)
\* Python's s1 < s2 on str: lexicographic by code point
StrLess(s1, s2) ==
    IF s2 = <<>> THEN FALSE
    ELSE IF s1 = <<>> THEN TRUE
    ELSE IF Head(s1) = Head(s2) THEN StrLess(Tail(s1), Tail(s2))
    ELSE Ord(Head(s1)) < Ord(Head(s2))

RECURSIVE Concat(_)
\* "".join(parts)
Concat(parts) ==
    IF parts = <<>> THEN <<>> ELSE Head(parts) \o Concat(Tail(parts))

(***************************************************************************)
(* json.dumps(obj, sort_keys=True, indent=2)                               *)
(***************************************************************************)
DigitChar(d) ==
    CASE d = 0 -> "0" [] d = 1 -> "1" [] d = 2 -> "2" [] d = 3 -> "3"
      [] d = 4 -> "4" [] d = 5 -> "5" [] d = 6 -> "6" [] d = 7 -> "7"
      [] d = 8 -> "8" [] d = 9 -> "9"

RECURSIVE NatRepr(_)
NatRepr(n) ==
    IF n < 10 THEN <<DigitChar(n)>>
    ELSE NatRepr(n \div 10) \o <<DigitChar(n % 10)>>

\* int.__repr__
IntRepr(n) == IF n < 0 THEN <<"-">> \o NatRepr(-n) ELSE NatRepr(n)

\* one character of a string under ensure_ascii
EscapeChar(c) ==
    CASE c = "\"" -> <<"\\", "\"">>
      [] c = "\\" -> <<"\\", "\\">>
      [] c = "\n" -> <<"\\", "n">>
      [] OTHER -> <<c>>

\* encode_basestring_ascii
EncodeString(s) ==
    <<"\"">> \o Concat([i \in 1..Len(s) |-> EscapeChar(s[i])]) \o <<"\"">>

RECURSIVE InsertItem(_, _)
\* insert one (key, value) item into a list sorted by key
InsertItem(item, sorted) ==
    IF sorted = <<>> THEN <<item>>
    ELSE IF StrLess(item[1], Head(sorted)[1]) THEN <<item>> \o sorted
    ELSE <<Head(sorted)>> \o InsertItem(item, Tail(sorted))

\* fault: json.dumps without sort_keys, the items in insertion order
UnsortedItems(items) == items

RECURSIVE SortedItems(_)
\* sorted(dct.items()): the keys of a dict are distinct
SortedItems(items) ==
    IF items = <<>> THEN <<>>
    ELSE InsertItem(items[Len(items)], SortedItems(SubSeq(items, 1, Len(items) - 1)))

\* "\n" followed by indent * level, with indent = 2 spaces
NewlineIndent(level) == <<"\n">> \o [i \in 1..(2 * level) |-> " "]

RECURSIVE IterEncode(_, _)
RECURSIVE EncodeElements(_, _, _)
RECURSIVE EncodeMembers(_, _, _)

\* the elements of a non-empty list, each after "[" or the separator
EncodeElements(xs, level, first) ==
    IF xs = <<>> THEN <<>>
    ELSE (IF first THEN <<>> ELSE <<",">>) \o NewlineIndent(level)
         \o IterEncode(Head(xs), level)
         \o EncodeElements(Tail(xs), level, FALSE)

\* the sorted items of a non-empty dict
EncodeMembers(items, level, first) ==
    IF items = <<>> THEN <<>>
    ELSE (IF first THEN <<>> ELSE <<",">>) \o NewlineIndent(level)
         \o EncodeString(Head(items)[1]) \o <<":", " ">>
         \o IterEncode(Head(items)[2], level)
         \o EncodeMembers(Tail(items), level, FALSE)

\* fault: the elements of a list sorted by their rendering
SortedElements(xs) ==
    LET items == SortedItems([x \in 1..Len(xs) |-> <<IterEncode(xs[x], 0), xs[x]>>])
    IN [x \in 1..Len(items) |-> items[x][2]]

\* fault: _iterencode rendering the elements of a list in sorted order
IterEncodeSortedLists(o, level) ==
    CASE o.t = "str" -> EncodeString(o.v)
      [] o.t = "NoneType" -> <<"n", "u", "l", "l">>
      [] o.t = "bool" ->
            IF o.v THEN <<"t", "r", "u", "e">> ELSE <<"f", "a", "l", "s", "e">>
      [] o.t = "int" -> IntRepr(o.v)
      [] o.t = "list" ->
            IF o.v = <<>> THEN <<"[", "]">>
            ELSE <<"[">> \o EncodeElements(SortedElements(o.v), level + 1, TRUE)
                 \o NewlineIndent(level) \o <<"]">>
      [] o.t = "dict" ->
            IF o.v = <<>> THEN <<"{", "}">>
            ELSE <<"{">> \o EncodeMembers(SortedItems(o.v), level + 1, TRUE)
                 \o NewlineIndent(level) \o <<"}">>

\* fault: _iterencode rendering an empty container on two lines, each
\* bracket on a line of its own
IterEncodeMultiLine(o, level) ==
    CASE o.t = "str" -> EncodeString(o.v)
      [] o.t = "NoneType" -> <<"n", "u", "l", "l">>
      [] o.t = "bool" ->
            IF o.v THEN <<"t", "r", "u", "e">> ELSE <<"f", "a", "l", "s", "e">>
      [] o.t = "int" -> IntRepr(o.v)
      [] o.t = "list" ->
            <<"[">> \o EncodeElements(o.v, level + 1, TRUE)
            \o NewlineIndent(level) \o <<"]">>
      [] o.t = "dict" ->
            <<"{">> \o EncodeMembers(SortedItems(o.v), level + 1, TRUE)
            \o NewlineIndent(level) \o <<"}">>

\* _iterencode at a nesting level
IterEncode(o, level) ==
    CASE o.t = "str" -> EncodeString(o.v)
      [] o.t = "NoneType" -> <<"n", "u", "l", "l">>
      [] o.t = "bool" ->
            IF o.v THEN <<"t", "r", "u", "e">> ELSE <<"f", "a", "l", "s", "e">>
      [] o.t = "int" -> IntRepr(o.v)
      [] o.t = "list" ->
            IF o.v = <<>> THEN <<"[", "]">>
            ELSE <<"[">> \o EncodeElements(o.v, level + 1, TRUE)
                 \o NewlineIndent(level) \o <<"]">>
      [] o.t = "dict" ->
            IF o.v = <<>> THEN <<"{", "}">>
            ELSE <<"{">> \o EncodeMembers(SortedItems(o.v), level + 1, TRUE)
                 \o NewlineIndent(level) \o <<"}">>

json_dumps(obj) == IterEncode(obj, 0)

RECURSIVE SplitFrom(_, _)
\* the lines of s from position start on, each ended by "\n" or by the end of s
SplitFrom(s, start) ==
    IF start > Len(s) THEN <<>>
    ELSE LET ends == {i \in start..Len(s) : s[i] = "\n"}
         IN IF ends = {} THEN <<SubSeq(s, start, Len(s))>>
            ELSE LET e == CHOOSE i \in ends : \A x \in ends : i <= x
                 IN <<SubSeq(s, start, e - 1)>> \o SplitFrom(s, e + 1)

\* str.splitlines
splitlines(s) == SplitFrom(s, 1)

\* the canonical lines of a value (lines 52 and 53)
CanonicalLines(obj) == splitlines(json_dumps(obj))

(***************************************************************************)
(* difflib.SequenceMatcher(None, a, b): a and b are sequences of lines,    *)
(* indexed from 0 as in Python (a[i] is a[i + 1] here); isjunk is None, so *)
(* bjunk is empty, and autojunk is on.                                     *)
(***************************************************************************)
\* autojunk applies to a second sequence of at least this many lines
AutoJunkMinLen == 200

\* __chain_b: the lines left out of b2j as popular
Popular(b) ==
    IF Len(b) >= AutoJunkMinLen
    THEN {b[j] : j \in {x \in 1..Len(b) :
                Cardinality({y \in 1..Len(b) : b[y] = b[x]}) > Len(b) \div 100 + 1}}
    ELSE {}

RECURSIVE MatchLen(_, _, _, _, _, _, _)
\* j2len[j] after the iteration of find_longest_match for i: the length of
\* the longest match inside a[alo:], b[blo:] that ends with a[i] and b[j]; 0
\* when a[i] # b[j] or the line is not in b2j.  newj2len[j] is
\* j2len.get(j - 1, 0) + 1, j2len being that of the iteration for i - 1 and
\* empty before the first one.
MatchLen(a, b, popular, alo, blo, i, j) ==
    IF i < alo \/ j < blo THEN 0
    ELSE IF a[i + 1] # b[j + 1] \/ b[j + 1] \in popular THEN 0
    ELSE MatchLen(a, b, popular, alo, blo, i - 1, j - 1) + 1

\* (besti, bestj, bestsize) after the loops of find_longest_match: i runs
\* over range(alo, ahi), j ascending over the places of a[i] in b[blo:bhi], and
\* the best is replaced only by a strictly longer match, so the longest match
\* with the least i, and among those the least j, is kept
LongestJunkFree(a, b, popular, alo, ahi, blo, bhi) ==
    LET k == [i \in alo..(ahi - 1) |->
                [j \in blo..(bhi - 1) |-> MatchLen(a, b, popular, alo, blo, i, j)]]
        found == {p \in (alo..(ahi - 1)) \X (blo..(bhi - 1)) : k[p[1]][p[2]] > 0}
    IN IF found = {} THEN <<alo, blo, 0>>
       ELSE LET longest == {p \in found :
                                \A q \in found : k[q[1]][q[2]] <= k[p[1]][p[2]]}
                first == CHOOSE p \in longest :
                            \A q \in longest :
                                p[1] < q[1] \/ (p[1] = q[1] /\ p[2] <= q[2])
                size == k[first[1]][first[2]]
            IN <<first[1] - size + 1, first[2] - size + 1, size>>

RECURSIVE ExtendBack(_, _, _, _, _)
\* extend the best match by equal (popular) lines before it
ExtendBack(a, b, alo, blo, m) ==
    IF m[1] > alo /\ m[2] > blo /\ a[m[1]] = b[m[2]]
    THEN ExtendBack(a, b, alo, blo, <<m[1] - 1, m[2] - 1, m[3] + 1>>)
    ELSE m

RECURSIVE ExtendForward(_, _, _, _, _)
\* extend the best match by equal (popular) lines after it
ExtendForward(a, b, ahi, bhi, m) ==
    IF m[1] + m[3] < ahi /\ m[2] + m[3] < bhi /\ a[m[1] + m[3] + 1] = b[m[2] + m[3] + 1]
    THEN ExtendForward(a, b, ahi, bhi, <<m[1], m[2], m[3] + 1>>)
    ELSE m

\* find_longest_match: Match(besti, bestj, bestsize) in a[alo:ahi], b[blo:bhi];
\* bjunk is empty, so the two loops over junk lines do nothing
find_longest_match(a, b, popular, alo, ahi, blo, bhi) ==
    ExtendForward(a, b, ahi, bhi,
        ExtendBack(a, b, alo, blo, LongestJunkFree(a, b, popular, alo, ahi, blo, bhi)))

RECURSIVE MatchBlocks(_, _, _, _, _, _, _)
\* the blocks get_matching_blocks collects from a[alo:ahi], b[blo:bhi], sorted
\* (the blocks left of a match sort before it, those right of it after it)
MatchBlocks(a, b, popular, alo, ahi, blo, bhi) ==
    LET x == find_longest_match(a, b, popular, alo, ahi, blo, bhi)
        i == x[1]
        j == x[2]
        k == x[3]
    IN IF k = 0 THEN <<>>
       ELSE (IF alo < i /\ blo < j
             THEN MatchBlocks(a, b, popular, alo, i, blo, j) ELSE <<>>)
            \o <<x>>
            \o (IF i + k < ahi /\ j + k < bhi
                THEN MatchBlocks(a, b, popular, i + k, ahi, j + k, bhi) ELSE <<>>)

RECURSIVE Collapse(_, _, _)
\* get_matching_blocks: adjacent equal blocks collapsed into one
Collapse(blocks, cur, out) ==
    IF blocks = <<>> THEN (IF cur[3] # 0 THEN Append(out, cur) ELSE out)
    ELSE LET nb == Head(blocks)
         IN IF cur[1] + cur[3] = nb[1] /\ cur[2] + cur[3] = nb[2]
            THEN Collapse(Tail(blocks), <<cur[1], cur[2], cur[3] + nb[3]>>, out)
            ELSE Collapse(Tail(blocks), nb,
                          IF cur[3] # 0 THEN Append(out, cur) ELSE out)

\* get_matching_blocks, the dummy (len(a), len(b), 0) last
get_matching_blocks(a, b) ==
    Append(Collapse(MatchBlocks(a, b, Popular(b), 0, Len(a), 0, Len(b)),
                    <<0, 0, 0>>, <<>>),
           <<Len(a), Len(b), 0>>)

RECURSIVE OpcodesStale(_, _, _)
\* fault: get_opcodes that never moves (i, j) past a matching block
OpcodesStale(blocks, i, j) ==
    IF blocks = <<>> THEN <<>>
    ELSE LET ai == Head(blocks)[1]
             bj == Head(blocks)[2]
             size == Head(blocks)[3]
             tag == IF i < ai /\ j < bj THEN "replace"
                    ELSE IF i < ai THEN "delete"
                    ELSE IF j < bj THEN "insert"
                    ELSE ""
         IN (IF tag # "" THEN <<<<tag, i, ai, j, bj>>>> ELSE <<>>)
            \o (IF size # 0 THEN <<<<"equal", ai, ai + size, bj, bj + size>>>> ELSE <<>>)
            \o OpcodesStale(Tail(blocks), i, j)

RECURSIVE Opcodes(_, _, _)
\* get_opcodes: (tag, i1, i2, j1, j2) from the matching blocks, from (i, j) on
Opcodes(blocks, i, j) ==
    IF blocks = <<>> THEN <<>>
    ELSE LET ai == Head(blocks)[1]
             bj == Head(blocks)[2]
             size == Head(blocks)[3]
             tag == IF i < ai /\ j < bj THEN "replace"
                    ELSE IF i < ai THEN "delete"
                    ELSE IF j < bj THEN "insert"
                    ELSE ""
         IN (IF tag # "" THEN <<<<tag, i, ai, j, bj>>>> ELSE <<>>)
            \o (IF size # 0 THEN <<<<"equal", ai, ai + size, bj, bj + size>>>> ELSE <<>>)
            \o Opcodes(Tail(blocks), ai + size, bj + size)

get_opcodes(a, b) == Opcodes(get_matching_blocks(a, b), 0, 0)

Max(x, y) == IF x > y THEN x ELSE y
Min(x, y) == IF x < y THEN x ELSE y

RECURSIVE GroupLoop(_, _, _, _)
\* the loop of get_grouped_opcodes over the codes, with n lines of context
GroupLoop(codes, n, group, out) ==
    IF codes = <<>>
    THEN IF group # <<>> /\ ~(Len(group) = 1 /\ group[1][1] = "equal")
         THEN Append(out, group) ELSE out
    ELSE LET c == Head(codes)
         IN IF c[1] = "equal" /\ c[3] - c[2] > n + n
            THEN GroupLoop(Tail(codes), n,
                    <<<<c[1], Max(c[2], c[3] - n), c[3], Max(c[4], c[5] - n), c[5]>>>>,
                    Append(out, Append(group,
                        <<c[1], c[2], Min(c[3], c[2] + n), c[4], Min(c[5], c[4] + n)>>)))
            ELSE GroupLoop(Tail(codes), n, Append(group, c), out)

\* get_grouped_opcodes: no opcodes stand for one 'equal' line
OrOneEqual(codes) == IF codes = <<>> THEN << <<"equal", 0, 1, 0, 1>> >> ELSE codes

\* codes[0] of get_grouped_opcodes: a leading 'equal' keeps its last n lines
TrimFirst(codes, n) ==
    LET c == Head(codes)
    IN IF c[1] = "equal"
       THEN << <<c[1], Max(c[2], c[3] - n), c[3], Max(c[4], c[5] - n), c[5]>> >>
            \o Tail(codes)
       ELSE codes

\* codes[-1] of get_grouped_opcodes: a trailing 'equal' keeps its first n lines
TrimLast(codes, n) ==
    LET c == codes[Len(codes)]
    IN IF c[1] = "equal"
       THEN SubSeq(codes, 1, Len(codes) - 1)
            \o << <<c[1], c[2], Min(c[3], c[2] + n), c[4], Min(c[5], c[4] + n)>> >>
       ELSE codes

\* get_grouped_opcodes(n)
get_grouped_opcodes(a, b, n) ==
    GroupLoop(TrimLast(TrimFirst(OrOneEqual(get_opcodes(a, b)), n), n), n, <<>>, <<>>)

(***************************************************************************)
(* difflib.unified_diff(a, b, n=0): fromfile, tofile and the dates are "", *)
(* lineterm is "\n".                                                       *)
(***************************************************************************)
\* _format_range_unified
FormatRangeUnified(start, stop) ==
    LET beginning == start + 1
        length == stop - start
    IN IF length = 1 THEN IntRepr(beginning)
       ELSE IntRepr(IF length = 0 THEN beginning - 1 ELSE beginning)
            \o <<",">> \o IntRepr(length)

\* a[i1:i2], each line after the prefix
Prefixed(prefix, a, i1, i2) == [x \in 1..(i2 - i1) |-> <<prefix>> \o a[i1 + x]]

\* fault: the lines of an 'insert' opcode are not written
OpcodeLinesNoInsert(a, b, c) ==
    IF c[1] = "equal" THEN Prefixed(" ", a, c[2], c[3])
    ELSE (IF c[1] \in {"replace", "delete"} THEN Prefixed("-", a, c[2], c[3]) ELSE <<>>)
         \o (IF c[1] = "replace" THEN Prefixed("+", b, c[4], c[5]) ELSE <<>>)

\* fault: a 'replace' opcode written as a 'delete', without its new lines
OpcodeLinesReplaceAsDelete(a, b, c) ==
    IF c[1] = "equal" THEN Prefixed(" ", a, c[2], c[3])
    ELSE (IF c[1] \in {"replace", "delete"} THEN Prefixed("-", a, c[2], c[3]) ELSE <<>>)
         \o (IF c[1] = "insert" THEN Prefixed("+", b, c[4], c[5]) ELSE <<>>)

\* the lines of one opcode of a group
OpcodeLines(a, b, c) ==
    IF c[1] = "equal" THEN Prefixed(" ", a, c[2], c[3])
    ELSE (IF c[1] \in {"replace", "delete"} THEN Prefixed("-", a, c[2], c[3]) ELSE <<>>)
         \o (IF c[1] \in {"replace", "insert"} THEN Prefixed("+", b, c[4], c[5]) ELSE <<>>)

\* the "@@ -r1 +r2 @@" line of a group and the lines of its opcodes
GroupLines(a, b, group) ==
    LET first == group[1]
        last == group[Len(group)]
    IN <<(<<"@", "@", " ", "-">> \o FormatRangeUnified(first[2], last[3])
          \o <<" ", "+">> \o FormatRangeUnified(first[4], last[5])
          \o <<" ", "@", "@", "\n">>)>>
       \o Concat([x \in 1..Len(group) |-> OpcodeLines(a, b, group[x])])

\* the two header lines, written once before the first group
HeaderLines == << <<"-", "-", "-", " ", "\n">>, <<"+", "+", "+", " ", "\n">> >>

\* the lines unified_diff yields for the groups
DiffLines(a, b, groups) ==
    IF groups = <<>> THEN <<>>
    ELSE HeaderLines \o Concat([x \in 1..Len(groups) |-> GroupLines(a, b, groups[x])])

\* list(difflib.unified_diff(a, b, n=0))
unified_diff(a, b, n) == DiffLines(a, b, get_grouped_opcodes(a, b, n))

(***************************************************************************)
(* find_differences(json1, json2)                                          *)
(***************************************************************************)
\* fault: c in line, where line.startswith(c) is meant
Contains(line, c) == \E x \in 1..Len(line) : line[x] = c

\* line.startswith(c)
StartsWith(line, c) == line # <<>> /\ line[1] = c

\* fault: the lines that start with c, the marker c not cut off
UnstrippedLines(diff_lines, c) ==
    SelectSeq(diff_lines, LAMBDA line : StartsWith(line, c))

\* [line[1:] for line in diff if line.startswith(c)]
StrippedLines(diff_lines, c) ==
    LET keep == SelectSeq(diff_lines, LAMBDA line : StartsWith(line, c))
    IN [x \in 1..Len(keep) |-> Tail(keep[x])]

\* fault: the two header lines are left in the diff
KeepHeaders(diff_lines) == diff_lines

\* lines 56 and 57: the two header lines are dropped
DropHeaders(diff_lines) ==
    IF Len(diff_lines) > 2 THEN SubSeq(diff_lines, 3, Len(diff_lines)) ELSE diff_lines

\* lines 62 to 64: the dictionary find_differences returns
Summary(added_lines, removed_lines) ==
    [added_to_json2 |-> added_lines,
     removed_from_json1 |-> removed_lines,
     total_changes |-> Len(added_lines) + Len(removed_lines)]

\* lines 59 to 64 on the diff lines left
SummaryOf(d) == Summary(StrippedLines(d, "+"), StrippedLines(d, "-"))

\* find_differences as one call
find_differences(j1, j2) ==
    SummaryOf(DropHeaders(unified_diff(CanonicalLines(j1), CanonicalLines(j2), 0)))

(***************************************************************************)
(* json.loads(content), for texts of null, true, false, integers, strings  *)
(* (escapes \", \\ and \n), arrays and objects.  A result is               *)
(* [ok, val, end]: end is the place after the value, ok is FALSE where     *)
(* json.loads raises JSONDecodeError.                                      *)
(***************************************************************************)
Fail == [ok |-> FALSE, val |-> None, end |-> 0]
Ok(v, e) == [ok |-> TRUE, val |-> v, end |-> e]

Digits == {"0", "1", "2", "3", "4", "5", "6", "7", "8", "9"}
DigitVal(c) == Ord(c) - Ord("0")

RECURSIVE SkipWs(_, _)
\* the first place from i on that holds no whitespace
SkipWs(s, i) == IF i <= Len(s) /\ s[i] \in {" ", "\n"} THEN SkipWs(s, i + 1) ELSE i

\* s[i:].startswith(lit)
MatchAt(s, i, lit) ==
    /\ i + Len(lit) - 1 <= Len(s)
    /\ \A x \in 1..Len(lit) : s[i + x - 1] = lit[x]

RECURSIVE ScanString(_, _, _)
\* py_scanstring from the place after the opening quote
ScanString(s, i, acc) ==
    IF i > Len(s) THEN Fail
    ELSE IF s[i] = "\"" THEN Ok(acc, i + 1)
    ELSE IF s[i] = "\n" THEN Fail
    ELSE IF s[i] = "\\"
    THEN IF i + 1 > Len(s) THEN Fail
         ELSE IF s[i + 1] = "\"" THEN ScanString(s, i + 2, Append(acc, "\""))
         ELSE IF s[i + 1] = "\\" THEN ScanString(s, i + 2, Append(acc, "\\"))
         ELSE IF s[i + 1] = "n" THEN ScanString(s, i + 2, Append(acc, "\n"))
         ELSE Fail
    ELSE ScanString(s, i + 1, Append(acc, s[i]))

RECURSIVE ScanDigits(_, _, _)
\* the digits from i on: <<their value, the place after them>>
ScanDigits(s, i, n) ==
    IF i <= Len(s) /\ s[i] \in Digits
    THEN ScanDigits(s, i + 1, 10 * n + DigitVal(s[i]))
    ELSE <<n, i>>

\* NUMBER_RE, integers only: -?(0|[1-9][0-9]*)
ScanNumber(s, i) ==
    LET neg == s[i] = "-"
        j == IF neg THEN i + 1 ELSE i
    IN IF j > Len(s) \/ s[j] \notin Digits THEN Fail
       ELSE IF s[j] = "0" THEN Ok(PyInt(0), j + 1)
       ELSE LET r == ScanDigits(s, j, 0)
            IN Ok(PyInt(IF neg THEN 0 - r[1] ELSE r[1]), r[2])

RECURSIVE SetItem(_, _, _)
\* dct[key] = value: a repeated key keeps its place and takes the last value
SetItem(items, key, value) ==
    IF items = <<>> THEN << <<key, value>> >>
    ELSE IF Head(items)[1] = key THEN << <<key, value>> >> \o Tail(items)
    ELSE <<Head(items)>> \o SetItem(Tail(items), key, value)

RECURSIVE ScanOnce(_, _)
RECURSIVE ObjectMembers(_, _, _)
RECURSIVE ArrayElements(_, _, _)

\* JSONObject from the opening quote of a key on
ObjectMembers(s, i, items) ==
    IF i > Len(s) \/ s[i] # "\"" THEN Fail
    ELSE LET k == ScanString(s, i + 1, <<>>)
         IN IF ~k.ok THEN Fail
            ELSE LET c == SkipWs(s, k.end)
                 IN IF c > Len(s) \/ s[c] # ":" THEN Fail
                    ELSE LET v == ScanOnce(s, SkipWs(s, c + 1))
                         IN IF ~v.ok THEN Fail
                            ELSE LET n == SkipWs(s, v.end)
                                     items2 == SetItem(items, k.val, v.val)
                                 IN IF n > Len(s) THEN Fail
                                    ELSE IF s[n] = "}" THEN Ok(PyDict(items2), n + 1)
                                    ELSE IF s[n] = ","
                                    THEN ObjectMembers(s, SkipWs(s, n + 1), items2)
                                    ELSE Fail

\* JSONArray from the first place of an element on
ArrayElements(s, i, xs) ==
    LET v == ScanOnce(s, i)
    IN IF ~v.ok THEN Fail
       ELSE LET n == SkipWs(s, v.end)
            IN IF n > Len(s) THEN Fail
               ELSE IF s[n] = "]" THEN Ok(PyList(Append(xs, v.val)), n + 1)
               ELSE IF s[n] = "," THEN ArrayElements(s, SkipWs(s, n + 1), Append(xs, v.val))
               ELSE Fail

\* scan_once: the value that starts at place i
ScanOnce(s, i) ==
    IF i > Len(s) THEN Fail
    ELSE IF s[i] = "\""
    THEN LET r == ScanString(s, i + 1, <<>>)
         IN IF r.ok THEN Ok(PyStr(r.val), r.end) ELSE Fail
    ELSE IF s[i] = "{"
    THEN LET n == SkipWs(s, i + 1)
         IN IF n <= Len(s) /\ s[n] = "}" THEN Ok(PyDict(<<>>), n + 1)
            ELSE ObjectMembers(s, n, <<>>)
    ELSE IF s[i] = "["
    THEN LET n == SkipWs(s, i + 1)
         IN IF n <= Len(s) /\ s[n] = "]" THEN Ok(PyList(<<>>), n + 1)
            ELSE ArrayElements(s, n, <<>>)
    ELSE IF MatchAt(s, i, <<"n", "u", "l", "l">>) THEN Ok(None, i + 4)
    ELSE IF MatchAt(s, i, <<"t", "r", "u", "e">>) THEN Ok(PyBool(TRUE), i + 4)
    ELSE IF MatchAt(s, i, <<"f", "a", "l", "s", "e">>) THEN Ok(PyBool(FALSE), i + 5)
    ELSE IF s[i] = "-" \/ s[i] \in Digits THEN ScanNumber(s, i)
    ELSE Fail

\* JSONDecoder.decode: one value, whitespace around it, nothing else
json_loads(s) ==
    LET r == ScanOnce(s, SkipWs(s, 1))
    IN IF r.ok /\ SkipWs(s, r.end) = Len(s) + 1 THEN r ELSE Fail

(***************************************************************************)
(* parse_json_content and parse_json_file: the pair (data, error).         *)
(***************************************************************************)
\* an error message; the detail of the exception is left out
ErrorMessage(msg) == [t |-> "str", v |-> msg]

\* lines 23 to 34
parse_json_content(content) ==
    IF content = <<>> THEN <<None, None>>
    ELSE LET r == json_loads(content)
         IN IF r.ok THEN <<r.val, None>>
            ELSE <<None, ErrorMessage("Invalid JSON format")>>

\* an uploaded file holds bytes: the ASCII bytes are written as their
\* characters, InvalidByte is a byte that is no UTF-8
InvalidByte == "0xFF"
UploadedFile(bytes) == [t |-> "UploadedFile", v |-> bytes]

\* content.decode('utf-8') raises UnicodeDecodeError
DecodeFails(bytes) == \E x \in 1..Len(bytes) : bytes[x] = InvalidByte

\* lines 36 to 47
parse_json_file(uploaded_file) ==
    IF uploaded_file = None THEN <<None, None>>
    ELSE IF DecodeFails(uploaded_file.v)
    THEN <<None, ErrorMessage("Error reading file")>>
    ELSE parse_json_content(uploaded_file.v)

(***************************************************************************)
(* The state: the arguments, locals and result of a call of                *)
(* find_differences, and what main holds between two runs of the script.   *)
(***************************************************************************)
VARIABLES
    json1, json2,            \* the two parsed documents
    json1_str, json2_str,    \* their canonical lines
    diff,                    \* the lines of the unified diff
    added, removed,          \* the summary lists
    differences,             \* the dictionary returned
    pc,                      \* the place in find_differences
    input_method,            \* main: "File Upload" or "Direct Input"
    json1_input, json2_input,\* main: the two text areas
    file1, file2,            \* main: the two uploaded files
    error1, error2,          \* main: the two parse errors
    shown                    \* main: what the run of the script displayed

vars == <<json1, json2, json1_str, json2_str, diff, added, removed, differences, pc,
          input_method, json1_input, json2_input, file1, file2, error1, error2, shown>>

engine_vars == <<json1_str, json2_str, diff, added, removed, differences, pc>>
main_vars == <<input_method, json1_input, json2_input, file1, file2, error1, error2, shown>>

(***************************************************************************)
(* The universes the arguments are drawn from.                             *)
(***************************************************************************)
\* the sequences of length n over S
SeqsOfLen(S, n) == [1..n -> S]
\* the sequences of length at most n over S
SeqsUpTo(S, n) == UNION {SeqsOfLen(S, m) : m \in 0..n}
\* the sequences without repetition
Injective(S, n) == {q \in SeqsOfLen(S, n) : \A x, y \in 1..n : x # y => q[x] # q[y]}

ArrayScalars == {PyInt(1), PyInt(2)}
Arrays(n) == {PyList(q) : q \in SeqsUpTo(ArrayScalars, n)}

Keys == {<<"a">>, <<"Z">>, <<"k">>}
\* the dicts of n members with keys of K in any insertion order and values of V
DictsOfLen(K, V, n) ==
    {PyDict([x \in 1..n |-> <<ks[x], vs[x]>>]) :
        ks \in Injective(K, n), vs \in SeqsOfLen(V, n)}
Dicts(K, V, n) == UNION {DictsOfLen(K, V, m) : m \in 0..n}

Scalars ==
    {None, PyBool(TRUE), PyInt(-1), PyInt(-12), PyStr(<<"v">>), PyStr(<<"+", "\n", "\"">>)}
MemberValues == {PyInt(1), PyStr(<<"v">>)}

\* the documents of the specification Spec
Docs ==
    Scalars \cup Arrays(MaxDocArrayLen) \cup Dicts(Keys, MemberValues, MaxMembers)
    \cup {PyDict(<< <<<<"k">>, l>> >>) : l \in Arrays(MaxDocArrayLen)}

(***************************************************************************)
(* find_differences, statement by statement.                               *)
(***************************************************************************)
\* the state before a call: the locals are not yet bound
EngineIdle ==
    /\ json1_str = <<>> /\ json2_str = <<>> /\ diff = <<>>
    /\ added = <<>> /\ removed = <<>> /\ differences = <<>>
    /\ pc = "line52"

\* main has not run
MainIdle ==
    /\ input_method = "Direct Input"
    /\ json1_input = <<>> /\ json2_input = <<>>
    /\ file1 = None /\ file2 = None
    /\ error1 = None /\ error2 = None
    /\ shown = "nothing"

\* lines 51, 52
DumpJson1 ==
    /\ pc = "line52"
    /\ json1_str' = CanonicalLines(json1)
    /\ pc' = "line53"
    /\ UNCHANGED <<json1, json2, json2_str, diff, added, removed, differences, main_vars>>

\* line 53
DumpJson2 ==
    /\ pc = "line53"
    /\ json2_str' = CanonicalLines(json2)
    /\ pc' = "line54"
    /\ UNCHANGED <<json1, json2, json1_str, diff, added, removed, differences, main_vars>>

\* line 54
UnifiedDiff ==
    /\ pc = "line54"
    /\ diff' = unified_diff(json1_str, json2_str, 0)
    /\ pc' = "line56"
    /\ UNCHANGED <<json1, json2, json1_str, json2_str, added, removed, differences, main_vars>>

\* lines 56, 57
StripHeader ==
    /\ pc = "line56"
    /\ diff' = DropHeaders(diff)
    /\ pc' = "line59"
    /\ UNCHANGED <<json1, json2, json1_str, json2_str, added, removed, differences, main_vars>>

\* line 59
CollectAdded ==
    /\ pc = "line59"
    /\ added' = StrippedLines(diff, "+")
    /\ pc' = "line60"
    /\ UNCHANGED <<json1, json2, json1_str, json2_str, diff, removed, differences, main_vars>>

\* line 60
CollectRemoved ==
    /\ pc = "line60"
    /\ removed' = StrippedLines(diff, "-")
    /\ pc' = "line62"
    /\ UNCHANGED <<json1, json2, json1_str, json2_str, diff, added, differences, main_vars>>

\* lines 62 to 66
Return ==
    /\ pc = "line62"
    /\ differences' = Summary(added, removed)
    /\ pc' = "returned"
    /\ UNCHANGED <<json1, json2, json1_str, json2_str, diff, added, removed, main_vars>>

NextEngine ==
    \/ DumpJson1 \/ DumpJson2 \/ UnifiedDiff \/ StripHeader
    \/ CollectAdded \/ CollectRemoved \/ Return

\* a call on any two documents
Init ==
    /\ json1 \in Docs /\ json2 \in Docs
    /\ EngineIdle /\ MainIdle
Spec == Init /\ [][NextEngine]_vars

\* a call on two arrays
InitArrays ==
    /\ json1 \in Arrays(MaxArrayLen) /\ json2 \in Arrays(MaxArrayLen)
    /\ EngineIdle /\ MainIdle
SpecArrays == InitArrays /\ [][NextEngine]_vars

(***************************************************************************)
(* main: every interaction runs the script from its first line; a run      *)
(* parses both inputs, shows the errors, and compares when the Compare     *)
(* button was the interaction.                                             *)
(***************************************************************************)
\* the texts typed or uploaded
InputTexts ==
    { <<>>,
      <<"n", "u", "l", "l">>,
      <<"t", "r", "u", "e">>,
      <<"-", "1">>,
      <<"\"", "v", "\"">>,
      <<"[", "1", ",", " ", "2", "]">>,
      <<"{", "}">>,
      <<"{", "\"", "k", "\"", ":", " ", "1", "}">>,
      <<"{", "\"", "k", "\"", ":", " ", "2", "}">>,
      <<" ">>,
      <<"{">>,
      <<"[", "1", ",">> }

\* the files uploaded: texts, and one file that is no UTF-8
InputFiles ==
    {UploadedFile(t) : t \in InputTexts} \cup {UploadedFile(<<"{", InvalidByte, "}">>)}

\* lines 122 to 196 of a run: the parse of both inputs, and the comparison
\* when compare_pressed
RunScript(method, text1, text2, f1, f2, compare_pressed) ==
    \E p1 \in {IF method = "File Upload" THEN parse_json_file(f1)
                ELSE parse_json_content(text1)} :
    \E p2 \in {IF method = "File Upload" THEN parse_json_file(f2)
                ELSE parse_json_content(text2)} :
       /\ json1' = p1[1] /\ error1' = p1[2]
       /\ json2' = p2[1] /\ error2' = p2[2]
       /\ IF compare_pressed
          THEN IF p1[1] # None /\ p2[1] # None
               THEN /\ shown' = "results"
                    /\ differences' = find_differences(p1[1], p2[1])
               ELSE /\ shown' = "warning"
                    /\ differences' = <<>>
          ELSE /\ shown' = "nothing"
               /\ differences' = <<>>
       /\ UNCHANGED <<json1_str, json2_str, diff, added, removed, pc>>

\* the radio button of lines 101 to 105: Streamlit drops the state of the
\* widgets a run does not draw, so the inputs of the other method are lost
ChooseInputMethod ==
    \E method \in {"File Upload", "Direct Input"} :
        /\ method # input_method
        /\ input_method' = method
        /\ json1_input' = <<>>
        /\ json2_input' = <<>>
        /\ file1' = None
        /\ file2' = None
        /\ RunScript(method, <<>>, <<>>, None, None, FALSE)

\* the text area of lines 143 to 148
EditJson1 ==
    \E text \in InputTexts :
        /\ input_method = "Direct Input"
        /\ json1_input' = text
        /\ UNCHANGED <<input_method, json2_input, file1, file2>>
        /\ RunScript(input_method, text, json2_input, file1, file2, FALSE)

\* the text area of lines 151 to 156
EditJson2 ==
    \E text \in InputTexts :
        /\ input_method = "Direct Input"
        /\ json2_input' = text
        /\ UNCHANGED <<input_method, json1_input, file1, file2>>
        /\ RunScript(input_method, json1_input, text, file1, file2, FALSE)

\* the uploader of line 126: a file is chosen or removed
UploadFile1 ==
    \E f \in InputFiles \cup {None} :
        /\ input_method = "File Upload"
        /\ file1' = f
        /\ UNCHANGED <<input_method, json1_input, json2_input, file2>>
        /\ RunScript(input_method, json1_input, json2_input, f, file2, FALSE)

\* the uploader of line 129
UploadFile2 ==
    \E f \in InputFiles \cup {None} :
        /\ input_method = "File Upload"
        /\ file2' = f
        /\ UNCHANGED <<input_method, json1_input, json2_input, file1>>
        /\ RunScript(input_method, json1_input, json2_input, file1, f, FALSE)

\* the Reset All button: reset_inputs (lines 17 to 21), then the run it asks for
ResetAll ==
    /\ input_method = "Direct Input"
    /\ json1_input' = <<>>
    /\ json2_input' = <<>>
    /\ UNCHANGED <<input_method, file1, file2>>
    /\ RunScript(input_method, <<>>, <<>>, file1, file2, FALSE)

\* the Compare JSONs button (lines 167 to 196)
PressCompare ==
    /\ UNCHANGED <<input_method, json1_input, json2_input, file1, file2>>
    /\ RunScript(input_method, json1_input, json2_input, file1, file2, TRUE)

\* the Generate Comparison Report button (line 183), drawn with the
\* results: its run finds the Compare button not pressed
PressGenerateReport ==
    /\ shown = "results"
    /\ UNCHANGED <<input_method, json1_input, json2_input, file1, file2>>
    /\ RunScript(input_method, json1_input, json2_input, file1, file2, FALSE)

NextMain ==
    \/ ChooseInputMethod \/ EditJson1 \/ EditJson2 \/ UploadFile1 \/ UploadFile2
    \/ ResetAll \/ PressCompare \/ PressGenerateReport

(***************************************************************************)
(* Relations between two documents, used to draw and to describe the       *)
(* arguments of a call.                                                    *)
(***************************************************************************)
IsScalar(o) == o.t \notin {"list", "dict"}

RECURSIVE SameUpToKeyOrder(_, _)
\* the same value, the members of each object possibly in another order
SameUpToKeyOrder(x, y) ==
    IF x.t # y.t THEN FALSE
    ELSE IF x.t = "list"
    THEN /\ Len(x.v) = Len(y.v)
         /\ \A i \in 1..Len(x.v) : SameUpToKeyOrder(x.v[i], y.v[i])
    ELSE IF x.t = "dict"
    THEN /\ Len(x.v) = Len(y.v)
         /\ \A i \in 1..Len(x.v) : \E j \in 1..Len(y.v) :
                /\ x.v[i][1] = y.v[j][1]
                /\ SameUpToKeyOrder(x.v[i][2], y.v[j][2])
    ELSE x.v = y.v

RECURSIVE LeafChanges(_, _)
\* the values got from o by replacing exactly one scalar leaf (an array
\* element or a member's value) by another scalar of S
LeafChanges(o, S) ==
    LET changed(e) == IF IsScalar(e) THEN {c \in S : c # e} ELSE LeafChanges(e, S)
    IN IF o.t = "list"
       THEN {PyList([o.v EXCEPT ![i] = c]) : <<i, c>> \in
                UNION {{<<i, c>> : c \in changed(o.v[i])} : i \in 1..Len(o.v)}}
       ELSE IF o.t = "dict"
       THEN {PyDict([o.v EXCEPT ![i] = <<o.v[i][1], c>>]) : <<i, c>> \in
                UNION {{<<i, c>> : c \in changed(o.v[i][2])} : i \in 1..Len(o.v)}}
       ELSE {}

\* the number of places of line l in the sequence q
Count(q, l) == Cardinality({i \in 1..Len(q) : q[i] = l})

\* q is a rearrangement of r
IsPermutation(q, r) ==
    /\ Len(q) = Len(r)
    /\ \A i \in 1..Len(q) : Count(q, q[i]) = Count(r, q[i])

RECURSIVE IsSubseq(_, _)
\* q is a subsequence of r: the lines of q, in order, among those of r
IsSubseq(q, r) ==
    IF q = <<>> THEN TRUE
    ELSE IF r = <<>> THEN FALSE
    ELSE IF Head(q) = Head(r) THEN IsSubseq(Tail(q), Tail(r))
    ELSE IsSubseq(q, Tail(r))

\* the objects of the specification SpecKeyOrder: members in every order,
\* member values that are objects themselves
InnerDicts == Dicts(Keys, {PyInt(1)}, MaxMembers)
NestedDicts == Dicts({<<"k">>, <<"a">>}, {PyInt(2)} \cup InnerDicts, MaxMembers)

\* a call on an object and the same object with its members in another order
InitKeyOrder ==
    /\ json1 \in NestedDicts
    /\ json2 \in {d \in NestedDicts : SameUpToKeyOrder(json1, d)}
    /\ EngineIdle /\ MainIdle
SpecKeyOrder == InitKeyOrder /\ [][NextEngine]_vars

\* the documents of the specification SpecLeaf
LeafDocs ==
    {PyList(q) : q \in SeqsUpTo(ArrayScalars, MaxLeafArrayLen)}
    \cup Dicts({<<"x">>, <<"k">>}, ArrayScalars \cup {PyList(<<PyInt(1), PyInt(2)>>)}, 2)

\* a call on a document and the same document with one scalar leaf replaced
InitLeaf ==
    /\ json1 \in LeafDocs
    /\ json2 \in LeafChanges(json1, ArrayScalars)
    /\ EngineIdle /\ MainIdle
SpecLeaf == InitLeaf /\ [][NextEngine]_vars

(***************************************************************************)
(* Notions the properties are stated with.                                 *)
(***************************************************************************)
Returned == pc = "returned"

\* the edit script behind the diff: the opcodes of the matcher, line by line
EditOps(a, b, c) ==
    IF c[1] = "equal" THEN [x \in 1..(c[3] - c[2]) |-> <<"Keep", a[c[2] + x]>>]
    ELSE (IF c[1] \in {"replace", "delete"}
          THEN [x \in 1..(c[3] - c[2]) |-> <<"Delete", a[c[2] + x]>>] ELSE <<>>)
         \o (IF c[1] \in {"replace", "insert"}
             THEN [x \in 1..(c[5] - c[4]) |-> <<"Insert", b[c[4] + x]>>] ELSE <<>>)

EditScript(a, b) ==
    LET codes == get_opcodes(a, b)
    IN Concat([x \in 1..Len(codes) |-> EditOps(a, b, codes[x])])

RECURSIVE Replay(_, _, _)
\* the script replayed against the lines a: a kept or deleted line must be the
\* next line of a; kept and inserted lines are written to out in order.
\* <<"stuck">> when the script does not fit a.
Replay(script, a, out) ==
    IF script = <<>> THEN (IF a = <<>> THEN out ELSE <<"stuck">>)
    ELSE LET op == Head(script)[1]
             line == Head(script)[2]
         IN IF op = "Insert" THEN Replay(Tail(script), a, Append(out, line))
            ELSE IF a = <<>> \/ Head(a) # line THEN <<"stuck">>
            ELSE IF op = "Keep" THEN Replay(Tail(script), Tail(a), Append(out, line))
            ELSE Replay(Tail(script), Tail(a), out)

\* the lines of the operations of one kind, in order
OpLines(script, kind) ==
    LET ops == SelectSeq(script, LAMBDA o : o[1] = kind)
    IN [x \in 1..Len(ops) |-> ops[x][2]]

RECURSIVE LcsRow(_, _, _, _, _)
\* one row of the table of longest common subsequence lengths
LcsRow(a, b, i, prev, cur) ==
    IF Len(cur) = Len(b) THEN cur
    ELSE LET j == Len(cur) + 1
             diag == IF j = 1 THEN 0 ELSE prev[j - 1]
             left == IF j = 1 THEN 0 ELSE cur[j - 1]
         IN LcsRow(a, b, i, prev,
                   Append(cur, IF a[i] = b[j] THEN diag + 1 ELSE Max(prev[j], left)))

RECURSIVE LcsRows(_, _, _, _)
LcsRows(a, b, i, prev) ==
    IF i > Len(a) THEN prev ELSE LcsRows(a, b, i + 1, LcsRow(a, b, i, prev, <<>>))

\* the length of a longest common subsequence of a and b
LCS(a, b) ==
    IF b = <<>> THEN 0 ELSE LcsRows(a, b, 1, [j \in 1..Len(b) |-> 0])[Len(b)]

\* the places where two line sequences of the same length differ
DifferAt(a, b) == {i \in 1..Len(a) : a[i] # b[i]}

(***************************************************************************)
(* The properties.                                                         *)
(***************************************************************************)
\* C1: comparing a document with itself reports no change: total_changes is
\* 0 and both lists are empty.
C1_Identity ==
    (Returned /\ json1 = json2) =>
        /\ differences.total_changes = 0
        /\ differences.added_to_json2 = <<>>
        /\ differences.removed_from_json1 = <<>>

\* C1 happens: a non-empty object was compared with itself.
C1_Witness ==
    /\ Returned /\ json1 = json2
    /\ json1.t = "dict" /\ Len(json1.v) = 2
    /\ differences.total_changes = 0

\* C2: two objects that differ only in the order of their members, at any
\* depth, have the same canonical lines, and their comparison reports no
\* change.
C2_KeyOrderInvariance ==
    (Returned /\ SameUpToKeyOrder(json1, json2)) =>
        /\ json1_str = json2_str
        /\ differences.total_changes = 0

\* C2 happens: the members of a nested object and of the outer object were
\* in another order in the second document.
C2_Witness ==
    /\ Returned /\ SameUpToKeyOrder(json1, json2)
    /\ Len(json1.v) = 2 /\ json1.v[1][1] # json2.v[1][1]
    /\ \E i, j \in 1..2 :
          /\ json1.v[i][1] = json2.v[j][1]
          /\ json1.v[i][2].t = "dict" /\ Len(json1.v[i][2].v) = 2
          /\ json1.v[i][2] # json2.v[j][2]
    /\ differences.total_changes = 0

\* C3: the edit script of the diff, replayed against the canonical lines of
\* json1 (kept and inserted lines written in order, deleted lines skipped),
\* gives the canonical lines of json2; removed is the deleted lines and
\* added the inserted lines.
C3_Reconstruction ==
    Returned =>
        LET script == EditScript(json1_str, json2_str)
        IN /\ Replay(script, json1_str, <<>>) = json2_str
           /\ removed = OpLines(script, "Delete")
           /\ added = OpLines(script, "Insert")
           /\ differences.removed_from_json1 = removed
           /\ differences.added_to_json2 = added

\* C3 happens: a script with kept, deleted and inserted lines was replayed.
C3_Witness ==
    /\ Returned
    /\ LET script == EditScript(json1_str, json2_str)
       IN /\ \A kind \in {"Keep", "Delete", "Insert"} : OpLines(script, kind) # <<>>
          /\ Len(OpLines(script, "Delete")) # Len(OpLines(script, "Insert"))
          /\ Replay(script, json1_str, <<>>) = json2_str

\* C4 as claimed: with the arguments swapped total_changes is the same, and
\* added and removed change places.
C4_SwapSymmetry ==
    Returned =>
        LET swapped == find_differences(json2, json1)
        IN /\ differences.total_changes = swapped.total_changes
           /\ differences.added_to_json2 = swapped.removed_from_json1
           /\ differences.removed_from_json1 = swapped.added_to_json2

\* C4 as amended: with the arguments swapped, for every line the number of
\* times it is added minus the number of times it is removed changes sign;
\* so added(a, b) and removed(b, a) have the same lines up to the lines each
\* comparison could have kept, and the two total_changes differ by an even
\* number (they need not be equal).
C4_SwapBalance ==
    Returned =>
        LET swapped == find_differences(json2, json1)
            lines == {json1_str[i] : i \in 1..Len(json1_str)}
                     \cup {json2_str[i] : i \in 1..Len(json2_str)}
        IN /\ \A l \in lines :
                Count(added, l) - Count(removed, l)
                = Count(swapped.removed_from_json1, l) - Count(swapped.added_to_json2, l)
           /\ Len(added) - Len(removed)
              = Len(swapped.removed_from_json1) - Len(swapped.added_to_json2)
           /\ (differences.total_changes - swapped.total_changes) % 2 = 0

\* C4 happens: the two directions report a different number of changes.
C4_Witness ==
    /\ Returned
    /\ differences.total_changes > find_differences(json2, json1).total_changes
    /\ added # <<>> /\ removed # <<>>

\* C5 as claimed: total_changes is |A| + |B| - 2 * LCS(A, B), the least
\* number of inserted plus deleted lines.
C5_Minimal ==
    Returned =>
        differences.total_changes
        = Len(json1_str) + Len(json2_str) - 2 * LCS(json1_str, json2_str)

\* C5 as amended: the kept lines are a common subsequence of A and B, of
\* some length K <= LCS(A, B), not always a longest one; total_changes is
\* |A| + |B| - 2 * K, at least |A| + |B| - 2 * LCS(A, B).
C5_CommonSubsequence ==
    Returned =>
        LET kept == OpLines(EditScript(json1_str, json2_str), "Keep")
        IN /\ IsSubseq(kept, json1_str) /\ IsSubseq(kept, json2_str)
           /\ Len(kept) <= LCS(json1_str, json2_str)
           /\ Len(removed) = Len(json1_str) - Len(kept)
           /\ Len(added) = Len(json2_str) - Len(kept)
           /\ differences.total_changes
              = Len(json1_str) + Len(json2_str) - 2 * Len(kept)
           /\ differences.total_changes
              >= Len(json1_str) + Len(json2_str) - 2 * LCS(json1_str, json2_str)

\* C5 happens: the kept lines are fewer than a longest common subsequence.
C5_Witness ==
    /\ Returned
    /\ Len(OpLines(EditScript(json1_str, json2_str), "Keep"))
       < LCS(json1_str, json2_str)
    /\ differences.total_changes
       > Len(json1_str) + Len(json2_str) - 2 * LCS(json1_str, json2_str)

\* json1 is the empty object and json2 an object with members
EmptyToMembers == json1 = PyDict(<<>>) /\ json2.t = "dict" /\ json2.v # <<>>

\* C6 as claimed: from the empty object to an object with members nothing
\* is removed, and total_changes is the number of added lines.
C6_NothingRemoved ==
    (Returned /\ EmptyToMembers) =>
        /\ differences.removed_from_json1 = <<>>
        /\ differences.total_changes = Len(differences.added_to_json2)

\* C6 as amended: the empty object is the one line {}, which shares no line
\* with a multi-line object; from {} to an object with members the line {}
\* is removed, every canonical line of json2 (its brackets and at least one
\* line per member) is added, and total_changes is |added| + 1.
C6_EmptyObjectReplaced ==
    (Returned /\ EmptyToMembers) =>
        /\ json1_str = << <<"{", "}">> >>
        /\ differences.removed_from_json1 = << <<"{", "}">> >>
        /\ differences.added_to_json2 = json2_str
        /\ Len(differences.added_to_json2) >= Len(json2.v) + 2
        /\ differences.total_changes = Len(differences.added_to_json2) + 1
        /\ (json2 = PyDict(<< <<<<"k">>, PyStr(<<"v">>)>> >>) =>
                differences.added_to_json2 =
                    << <<"{">>,
                       <<" ", " ", "\"", "k", "\"", ":", " ", "\"", "v", "\"">>,
                       <<"}">> >>)

\* C6 happens: {} was compared with {"k": "v"}.
C6_Witness ==
    /\ Returned /\ EmptyToMembers
    /\ json2 = PyDict(<< <<<<"k">>, PyStr(<<"v">>)>> >>)
    /\ differences.total_changes = 4

\* C7 as claimed: one scalar leaf replaced gives exactly one removed and
\* one added line.  (Every call of SpecLeaf replaces one scalar leaf.)
C7_OneLineEach ==
    (Returned /\ json2 \in LeafChanges(json1, ArrayScalars)) =>
        /\ Len(differences.removed_from_json1) = 1
        /\ Len(differences.added_to_json2) = 1
        /\ differences.total_changes = 2

\* C7 as amended: one scalar leaf replaced changes exactly one canonical
\* line; the old line is among the removed lines and the new line among the
\* added lines, as many lines are added as removed, and total_changes is
\* twice that number, at least 2; other lines of the block may be reported.
C7_LeafLineReported ==
    (Returned /\ json2 \in LeafChanges(json1, ArrayScalars)) =>
        /\ Len(json1_str) = Len(json2_str)
        /\ Cardinality(DifferAt(json1_str, json2_str)) = 1
        /\ \A i \in DifferAt(json1_str, json2_str) :
              /\ Count(differences.removed_from_json1, json1_str[i]) >= 1
              /\ Count(differences.added_to_json2, json2_str[i]) >= 1
        /\ Len(differences.added_to_json2) = Len(differences.removed_from_json1)
        /\ differences.total_changes = 2 * Len(differences.added_to_json2)
        /\ differences.total_changes >= 2

\* C7 happens: one leaf was replaced and more than two changes reported.
C7_Witness ==
    /\ Returned /\ json2 \in LeafChanges(json1, ArrayScalars)
    /\ Cardinality(DifferAt(json1_str, json2_str)) = 1
    /\ differences.total_changes > 2

\* the array of json2 is the array of json1 with its elements in another
\* order; the array is the document or the value of its only member
Reordered(x, y) ==
    \/ /\ x.t = "list" /\ y.t = "list"
       /\ IsPermutation(x.v, y.v) /\ x.v # y.v
    \/ /\ x.t = "dict" /\ y.t = "dict" /\ Len(x.v) = 1 /\ Len(y.v) = 1
       /\ x.v[1][1] = y.v[1][1]
       /\ x.v[1][2].t = "list" /\ y.v[1][2].t = "list"
       /\ IsPermutation(x.v[1][2].v, y.v[1][2].v) /\ x.v[1][2].v # y.v[1][2].v

\* C8: an array with its elements in another order is reported as changed:
\* the canonical lines keep the order of the elements.
C8_ArrayOrderSensitive ==
    (Returned /\ Reordered(json1, json2)) =>
        /\ json1_str # json2_str
        /\ differences.total_changes > 0

\* C8 happens: the array of a member was reordered.
C8_Witness ==
    /\ Returned /\ Reordered(json1, json2)
    /\ json1.t = "dict" /\ Len(json1.v[1][2].v) = 3
    /\ differences.total_changes > 0

\* C9: the result has exactly the three fields; removed_from_json1 is a
\* subsequence of the canonical lines of json1 and added_to_json2 one of
\* those of json2; total_changes is the sum of their lengths; no header or
\* hunk line (each ends with a line feed) is in either list.
C9_SummaryPartition ==
    Returned =>
        /\ DOMAIN differences = {"added_to_json2", "removed_from_json1", "total_changes"}
        /\ IsSubseq(differences.removed_from_json1, json1_str)
        /\ IsSubseq(differences.added_to_json2, json2_str)
        /\ differences.total_changes
           = Len(differences.added_to_json2) + Len(differences.removed_from_json1)
        /\ \A q \in {differences.added_to_json2, differences.removed_from_json1} :
              \A i \in 1..Len(q) : \A x \in 1..Len(q[i]) : q[i][x] # "\n"

\* C9 happens: canonical lines that begin with "-" were removed and added.
C9_Witness ==
    /\ Returned
    /\ json1 = PyInt(-1) /\ json2 = PyInt(-12)
    /\ differences.removed_from_json1 = << <<"-", "1">> >>
    /\ differences.added_to_json2 = << <<"-", "1", "2">> >>

\* the first run of the script: nothing typed, nothing uploaded
InitMain ==
    /\ json1 = None /\ json2 = None
    /\ EngineIdle /\ MainIdle
SpecMain == InitMain /\ [][NextMain]_vars

\* the text main parses for an input: the text area, or the bytes of the file
GivenText(text, f) ==
    IF input_method = "Direct Input" THEN text
    ELSE IF f = None THEN <<>> ELSE f.v

\* the input is a well-formed JSON document, of any type
WellFormed(text, f) ==
    /\ ~DecodeFails(GivenText(text, f))
    /\ json_loads(GivenText(text, f)).ok

\* the document of a well-formed input
Document(text, f) == json_loads(GivenText(text, f)).val

\* C10: when Compare is pressed the summary is shown if and only if both
\* inputs are well-formed JSON documents of any type, and the warning
\* otherwise; an input that is empty or malformed gives no data, and an
\* error message exactly when it is not empty and malformed.
C10_AllOrNothing ==
    shown \in {"results", "warning"} =>
        /\ shown = "results" <=>
              (WellFormed(json1_input, file1) /\ WellFormed(json2_input, file2))
        /\ shown = "results" =>
              differences = find_differences(Document(json1_input, file1),
                                             Document(json2_input, file2))
        /\ ~WellFormed(json1_input, file1) => json1 = None
        /\ ~WellFormed(json2_input, file2) => json2 = None
        /\ error1 # None <=>
              (GivenText(json1_input, file1) # <<>> /\ ~WellFormed(json1_input, file1))
        /\ error2 # None <=>
              (GivenText(json2_input, file2) # <<>> /\ ~WellFormed(json2_input, file2))

\* C10 fails here: Compare was pressed with the texts null and {}, both
\* well-formed and without an error message, and the warning was shown.
C10_Witness ==
    /\ shown = "warning"
    /\ input_method = "Direct Input"
    /\ json1_input = <<"n", "u", "l", "l">>
    /\ json2_input = <<"{", "}">>
    /\ WellFormed(json1_input, file1) /\ WellFormed(json2_input, file2)
    /\ json1 = None /\ json2 = PyDict(<<>>)
    /\ error1 = None /\ error2 = None

\* what main does: the summary is shown if and only if both inputs are
\* well-formed and neither is the document null, which line 168 takes for a
\* missing input
MainComparesUnlessNull ==
    shown \in {"results", "warning"} =>
        /\ shown = "results" <=>
              /\ WellFormed(json1_input, file1) /\ WellFormed(json2_input, file2)
              /\ Document(json1_input, file1) # None
              /\ Document(json2_input, file2) # None
        /\ shown = "results" =>
              differences = find_differences(Document(json1_input, file1),
                                             Document(json2_input, file2))
        /\ ~WellFormed(json1_input, file1) => json1 = None
        /\ ~WellFormed(json2_input, file2) => json2 = None
        /\ error1 # None <=>
              (GivenText(json1_input, file1) # <<>> /\ ~WellFormed(json1_input, file1))
        /\ error2 # None <=>
              (GivenText(json2_input, file2) # <<>> /\ ~WellFormed(json2_input, file2))

=============================================================================
